---- MODULE Spec2Model ----
(***************************************************************************)
(* Model of snwagh/private-histogram (src/main.py): a ring of participants *)
(* exchanges keys through files, publishes masked records and aggregates   *)
(* them.  Every participant runs the __main__ script repeatedly; one run   *)
(* is a sequence of steps (pc) over a storage namespace shared by all      *)
(* participants, so that runs of different participants interleave at the  *)
(* granularity of the script's file operations.                            *)
(***************************************************************************)
EXTENDS Integers, Sequences, FiniteSets, TLC

\* ------------------------------------------------------------------ bounds
\* Secret keys are drawn from 1..MaxKey instead of 1..STATISTICAL_SECURITY.
MaxKey == 2

\* generate_my_data draws one of the first MaxSamples records of DataRecords
\* instead of any record of MyDataRecords.
MaxSamples == 2

\* ------------------------------------------------------------ the universe
Users == {"A", "B", "C"}

Fields == {"average_views_per_day", "num_movies_rated", "num_movies_watched", "view_time"}

\* The ring lists the data file may publish in this model: every sequence
\* of one or two distinct users, and the full ring in both orientations.
Rings ==
  { r \in UNION { [1..n -> Users] : n \in 1..2 } :
      \A i, j \in DOMAIN r : i # j => r[i] # r[j] }
  \cup { <<"A", "B", "C">>, <<"A", "C", "B">> }

\* The values random.randint(a, b) may return.
randint(a, b) == a..b

\* Every record generate_my_data may draw.
MyDataRecords ==
  [view_time : randint(10, 20), average_views_per_day : randint(1, 5),
   num_movies_watched : randint(5, 10), num_movies_rated : randint(0, 5)]

\* Some of them: the lower and the upper end of every range, then records
\* with values in between.
DataRecords ==
  << [view_time |-> 10, average_views_per_day |-> 1,
      num_movies_watched |-> 5, num_movies_rated |-> 0],
     [view_time |-> 20, average_views_per_day |-> 5,
      num_movies_watched |-> 10, num_movies_rated |-> 5],
     [view_time |-> 16, average_views_per_day |-> 4,
      num_movies_watched |-> 5, num_movies_rated |-> 2],
     [view_time |-> 19, average_views_per_day |-> 2,
      num_movies_watched |-> 6, num_movies_rated |-> 2],
     [view_time |-> 16, average_views_per_day |-> 5,
      num_movies_watched |-> 9, num_movies_rated |-> 3] >>

\* The records generate_my_data draws in this model.
DataSamples ==
  { DataRecords[i] :
      i \in { j \in 1..Len(DataRecords) :
                j <= MaxSamples /\ DataRecords[j] \in MyDataRecords } }

STATISTICAL_SECURITY == 1073741824

\* The values random.randint(1, STATISTICAL_SECURITY) may draw in this model.
SecretValues ==
  1..(IF MaxKey < STATISTICAL_SECURITY THEN MaxKey ELSE STATISTICAL_SECURITY)

VARIABLES
  ring,            \* the ring currently published in RING_DATA_FILE
  fs,              \* the storage namespace: path -> file content
  perms,           \* directory -> [read, write] set by set_permissions
  pc,              \* where each participant's run of __main__ stands
  prev_user_id,    \* runner.prev_user_id of the current run
  next_user_id,    \* runner.next_user_id of the current run
  secret_value,    \* the local secret_value of __main__ (stage 1)
  status,          \* the outcome of each participant's latest run, "none" while it runs
  random_state     \* the generator of module random in each running process

vars ==
  <<ring, fs, perms, pc, prev_user_id, next_user_id, secret_value, status,
    random_state>>

None == "None"

\* The generator of module random as a new process finds it: seeded from
\* the operating system, which the draws of generate_my_data and
\* create_secret_value do not make predictable.
OsSeeded == [seed |-> <<"os">>, draws |-> 0]

\* No process of the participant is running: there is no generator.
NoProcess == [seed |-> <<>>, draws |-> 0]

\* ------------------------------------------------------- python built-ins
Digits == <<"0", "1", "2", "3", "4", "5", "6", "7", "8", "9">>

RECURSIVE NatStr(_)
NatStr(n) ==
  IF n < 10 THEN <<Digits[n + 1]>>
  ELSE Append(NatStr(n \div 10), Digits[(n % 10) + 1])

\* str(n) of a Python int: decimal digits, "-" in front of a negative one.
str(n) ==
  LET Decimal(v) == IF v < 0 THEN <<"-">> \o NatStr(0 - v) ELSE NatStr(v)
  IN  CHOOSE s \in {Decimal(v) : v \in {n}} : TRUE

DigitVal(c) ==
  CHOOSE d \in 0..9 : Digits[d + 1] = c

\* The number written by the first n digits of s.
RECURSIVE NatValUpTo(_, _)
NatValUpTo(s, n) ==
  IF n = 0 THEN 0
  ELSE NatValUpTo(s, n - 1) * 10 + DigitVal(s[n])

NatVal(s) == NatValUpTo(s, Len(s))

\* int(s) of a decimal string.
int(s) ==
  IF s[1] = "-" THEN 0 - NatVal(Tail(s)) ELSE NatVal(s)

Abs(n) ==
  IF n < 0 THEN 0 - n ELSE n

\* The number of significant bits of a Python float (an IEEE 754 double).
MantissaBits == 53

\* The mantissa is kept as two numbers: its first HighBits binary digits and
\* its last LowBits binary digits.
LowBits == 27

HighBits == MantissaBits - LowBits

\* The number of binary digits of a > 0.
BitLength(a) ==
  CHOOSE L \in 1..31 : a \div (2^(L - 1)) = 1

\* 2^j modulo n.
RECURSIVE Pow2Mod(_, _)
Pow2Mod(j, n) ==
  IF j <= 30 THEN (2^j) % n
  ELSE (Pow2Mod(j \div 2, n) * Pow2Mod(j - (j \div 2), n)) % n

\* What the long division of a by n leaves after binary digit i >= L, where
\* L is the number of binary digits of a: a * 2^(i - L) modulo n.
QuotientRest(a, n, L, i) ==
  ((a % n) * Pow2Mod(i - L, n)) % n

\* The number written by the binary digits from .. from + count - 1 of
\* a / n, digit i having the weight 2^(L - i); count is small enough for
\* n * 2^count to be a machine number of the model.
QuotientChunk(a, n, L, from, count) ==
  LET e == from + count - 1 - L
  IN  IF e <= 0 THEN ((a \div n) \div (2^(0 - e))) % (2^count)
      ELSE IF e < count
           THEN ((a \div n) % (2^(count - e))) * (2^e) + (((a % n) * (2^e)) \div n)
           ELSE (QuotientRest(a, n, L, from - 1) * (2^count)) \div n

\* The same for any count, chunk by chunk.
RECURSIVE QuotientDigits(_, _, _, _, _)
QuotientDigits(a, n, L, from, count) ==
  LET k == 30 - BitLength(n)
  IN  IF count <= k THEN QuotientChunk(a, n, L, from, count)
      ELSE QuotientDigits(a, n, L, from, count - k) * (2^k)
             + QuotientChunk(a, n, L, from + count - k, k)

\* The position of the first binary digit 1 of a / n, a > 0.
LeadingBit(a, n, L) ==
  IF a >= n THEN L - BitLength(a \div n) + 1
  ELSE IF a * (2^(BitLength(n) - L)) >= n
       THEN BitLength(n)
       ELSE BitLength(n) + 1

\* The float 0.0.
FloatZero ==
  [sign |-> 0, exponent |-> 0, mantissa |-> <<0, 0>>]

\* The float nearest to t / n (ties to even), t # 0, from the digits of the
\* quotient: s is the position of its first digit 1.
RoundedQuotient(t, n, L, s) ==
  LET a    == Abs(t)
      high == QuotientDigits(a, n, L, s, HighBits)
      low  == QuotientDigits(a, n, L, s + HighBits, LowBits)
      up   == /\ QuotientDigits(a, n, L, s + MantissaBits, 1) = 1
              /\ \/ QuotientRest(a, n, L, s + MantissaBits) # 0
                 \/ low % 2 = 1
      sign == IF t < 0 THEN 1 ELSE 0
  IN  IF ~up
      THEN [sign |-> sign, exponent |-> L - s, mantissa |-> <<high, low>>]
      ELSE IF low + 1 < 2^LowBits
      THEN [sign |-> sign, exponent |-> L - s, mantissa |-> <<high, low + 1>>]
      ELSE IF high + 1 < 2^HighBits
      THEN [sign |-> sign, exponent |-> L - s, mantissa |-> <<high + 1, 0>>]
      ELSE [sign |-> sign, exponent |-> L - s + 1,
            mantissa |-> <<2^(HighBits - 1), 0>>]

\* The float nearest to t / n, t # 0, L being the number of binary digits
\* of |t|.
NormalisedQuotient(t, n, L) ==
  CHOOSE q \in { RoundedQuotient(t, n, L, s) :
                   s \in {LeadingBit(Abs(t), n, L)} } : TRUE

\* The float nearest to t / n.
FloatQuotient(t, n) ==
  IF t = 0 THEN FloatZero
  ELSE CHOOSE q \in { NormalisedQuotient(t, n, L) :
                        L \in {BitLength(Abs(t))} } : TRUE

\* total / num_members of two Python ints: the float nearest to the
\* quotient, as sign, exponent and mantissa; with the mantissa <<high, low>>
\* the value is
\* (-1)^sign * (high * 2^LowBits + low) * 2^(exponent - (MantissaBits - 1)).
TrueDiv(total, num_members) ==
  CHOOSE q \in { FloatQuotient(t, n) : t \in {total}, n \in {num_members} } :
     TRUE

\* ---------------------------------------------------------------- paths
my_data_path(user_id) == <<user_id, "private", "my_data.json">>

get_key_paths(user_id, key_number) == <<user_id, key_number, "key.txt">>

encrypted_data_path(user_id) == <<user_id, "public", "encrypted_data.json">>

aggregate_data_path(user_id) == <<user_id, "private", "aggregate_data.json">>

check_file_exists(files, path) == path \in DOMAIN files

create_file(files, path, content) ==
  [q \in (DOMAIN files) \cup {path} |-> IF q = path THEN content ELSE files[q]]

set_permissions(pm, dir, read, write) ==
  [d \in (DOMAIN pm) \cup {dir} |->
     IF d = dir THEN [read |-> read, write |-> write] ELSE pm[d]]

\* ------------------------------------------------------------------ prg
\* random.seed(f"{seed}_{key_name}"); random.randint(1, STATISTICAL_SECURITY)
\* tabulated from CPython for the seeds 1..8 and the four field names.
PrgTable ==
  [average_views_per_day |->
     <<866211397, 1010238006, 1018815036, 41930249,
       655035484, 277938154, 101168656, 691536391>>,
   num_movies_rated |->
     <<756824801, 770143187, 597232737, 597712762,
       528155942, 266234104, 82601394, 929104794>>,
   num_movies_watched |->
     <<221386011, 711847732, 27728542, 144925167,
       207210743, 832640382, 380894701, 118633649>>,
   view_time |->
     <<793664595, 192001703, 629970970, 569437837,
       689291202, 90252335, 373664370, 812233330>>]

prg(seed, key_name) == PrgTable[key_name][seed]

\* Line 18: the string prg seeds the generator with, f"{seed}_{key_name}".
prg_seed(seed, key_name) == str(seed) \o <<"_", key_name>>

\* Lines 18-19: the generator of module random after a call of prg: seeded
\* with prg_seed and advanced by the one randint.
prg_random(seed, key_name) ==
  [seed |-> prg_seed(seed, key_name), draws |-> 1]

\* Line 118: load_my_data returns the record with its keys sorted; this is
\* the order in which the loop of encrypt_data meets them.
SortedKeys ==
  <<"average_views_per_day", "num_movies_rated", "num_movies_watched", "view_time">>

\* The key the loop of encrypt_data ends with.
LastField == SortedKeys[Len(SortedKeys)]

\* Line 124: the last call of prg in encrypt_data is prg(second_key, key)
\* for the last key of my_data.
encrypt_data_random(second_key) == prg_random(second_key, LastField)

\* ------------------------------------------------------- pure operations
\* list.index: the 0-based position of the first occurrence; -1 stands for
\* the ValueError it raises when there is none.
ListIndex(ring_participants, user_id) ==
  IF \E i \in 1..Len(ring_participants) : ring_participants[i] = user_id
  THEN (CHOOSE i \in 1..Len(ring_participants) :
          /\ ring_participants[i] = user_id
          /\ \A j \in 1..(i - 1) : ring_participants[j] # user_id) - 1
  ELSE -1

\* Mutant: the ValueError is swallowed.
NotFoundRaised_never(ring_participants, my_user_id) == FALSE

\* The try/except of get_neighbors: the ValueError is raised again.
NotFoundRaised(ring_participants, my_user_id) ==
  ListIndex(ring_participants, my_user_id) = -1

\* Mutant: the next index does not wrap around at the end of the ring.
get_neighbors_nowrap(ring_participants, my_user_id) ==
  LET index      == ListIndex(ring_participants, my_user_id)
      prev_index == (index - 1) % Len(ring_participants)
      next_index == IF index + 1 = Len(ring_participants) THEN index ELSE index + 1
  IN  <<ring_participants[prev_index + 1], ring_participants[next_index + 1]>>

\* get_neighbors once the index was found: <<previous, next>>.
get_neighbors(ring_participants, my_user_id) ==
  LET index      == ListIndex(ring_participants, my_user_id)
      prev_index == (index - 1) % Len(ring_participants)
      next_index == (index + 1) % Len(ring_participants)
  IN  <<ring_participants[prev_index + 1], ring_participants[next_index + 1]>>

\* Mutant: the next neighbor's folder is made readable by the sender.
setup_folder_perms_reader(pm, my_user_id, next_id) ==
  LET pm1 == set_permissions(pm, <<next_id, "first">>, {my_user_id}, {my_user_id})
  IN  set_permissions(pm1, <<my_user_id, "second">>, {my_user_id}, {my_user_id})

setup_folder_perms(pm, my_user_id, next_id) ==
  LET pm1 == set_permissions(pm, <<next_id, "first">>, {next_id}, {my_user_id})
  IN  set_permissions(pm1, <<my_user_id, "second">>, {my_user_id}, {my_user_id})

\* Mutant: the value stored is not the value returned to the caller.
create_secret_value_other(files, my_user_id, value) ==
  create_file(files, get_key_paths(my_user_id, "second"), str((value % MaxKey) + 1))

\* Mutant: the secret is stored in the participant's own "first" folder.
create_secret_value_first(files, my_user_id, value) ==
  create_file(files, get_key_paths(my_user_id, "first"), str(value))

\* create_secret_value with the value random.randint drew.
create_secret_value(files, my_user_id, value) ==
  create_file(files, get_key_paths(my_user_id, "second"), str(value))

\* Mutant: the value deposited is not the one stored as the second key.
write_to_next_person_other(files, next_id, value) ==
  create_file(files, get_key_paths(next_id, "first"), str((value % MaxKey) + 1))

\* Mutant: the value is deposited in the wrong folder of the next neighbor.
write_to_next_person_folder(files, next_id, value) ==
  create_file(files, get_key_paths(next_id, "second"), str(value))

write_to_next_person(files, next_id, value) ==
  create_file(files, get_key_paths(next_id, "first"), str(value))

load_my_data(files, my_user_id) == files[my_data_path(my_user_id)]

\* Mutant: the two keys are used the other way round.
encrypt_data_swapped(my_data, first_key, second_key) ==
  [key \in DOMAIN my_data |->
     LET prg_diff == prg(second_key, key) - prg(first_key, key)
     IN  str(my_data[key] + prg_diff)]

encrypt_data(my_data, first_key, second_key) ==
  [key \in DOMAIN my_data |->
     LET prg_diff == prg(first_key, key) - prg(second_key, key)
     IN  str(my_data[key] + prg_diff)]

create_encrypted_data_file(files, my_user_id) ==
  LET my_data    == load_my_data(files, my_user_id)
      first_key  == int(files[get_key_paths(my_user_id, "first")])
      second_key == int(files[get_key_paths(my_user_id, "second")])
  IN  create_file(files, encrypted_data_path(my_user_id),
                  encrypt_data(my_data, first_key, second_key))

\* The loop of aggregate_data over the first n ring members, none missing.
RECURSIVE SumEncrypted(_, _, _)
SumEncrypted(files, ring_participants, n) ==
  IF n = 0 THEN [key \in Fields |-> 0]
  ELSE LET aggregate == SumEncrypted(files, ring_participants, n - 1)
           user_data == files[encrypted_data_path(ring_participants[n])]
       IN  [key \in Fields |->
              IF key \in DOMAIN user_data
              THEN aggregate[key] + int(user_data[key]) ELSE aggregate[key]]

AllEncryptedExist(files, ring_participants) ==
  \A i \in 1..Len(ring_participants) :
     check_file_exists(files, encrypted_data_path(ring_participants[i]))

\* Mutant: the sum is divided by a wrong member count.
average_data_count(files, ring_participants) ==
  LET num_members == Len(ring_participants) + 1
  IN  CHOOSE average \in
        { [key \in Fields |-> TrueDiv(aggregate[key], num_members)] :
          aggregate \in {SumEncrypted(files, ring_participants,
                                      Len(ring_participants))} } : TRUE

average_data(files, ring_participants) ==
  LET num_members == Len(ring_participants)
  IN  CHOOSE average \in
        { [key \in Fields |-> TrueDiv(aggregate[key], num_members)] :
          aggregate \in {SumEncrypted(files, ring_participants, num_members)} } :
        TRUE

\* Line 165 raising KeyError: the masked record of ring member i has a key
\* that aggregate does not have.
KeyErrorAt(files, ring_participants, i) ==
  /\ check_file_exists(files, encrypted_data_path(ring_participants[i]))
  /\ ~(DOMAIN files[encrypted_data_path(ring_participants[i])] \subseteq Fields)

\* The ring members at which the loop of aggregate_data would stop: the
\* masked record is missing (return False) or raises KeyError.
LoopStops(files, ring_participants) ==
  { i \in 1..Len(ring_participants) :
      \/ ~check_file_exists(files, encrypted_data_path(ring_participants[i]))
      \/ KeyErrorAt(files, ring_participants, i) }

\* Mutant: an aggregate is saved although a masked record is missing.
aggregate_data_early(files, ring_participants, my_user_id) ==
  IF AllEncryptedExist(files, ring_participants)
  THEN [ok |-> TRUE, raised |-> FALSE,
        files |-> create_file(files, aggregate_data_path(my_user_id),
                              average_data(files, ring_participants))]
  ELSE [ok |-> FALSE, raised |-> FALSE,
        files |-> create_file(files, aggregate_data_path(my_user_id),
                              [key \in Fields |-> TrueDiv(0, Len(ring_participants))])]

\* aggregate_data: [ok |-> its return value, raised |-> whether it ended
\* with KeyError instead of returning, files |-> the storage after it].
aggregate_data(files, ring_participants, my_user_id) ==
  IF LoopStops(files, ring_participants) = {}
  THEN [ok |-> TRUE, raised |-> FALSE,
        files |-> create_file(files, aggregate_data_path(my_user_id),
                              average_data(files, ring_participants))]
  ELSE [ok |-> FALSE,
        raised |-> \E i \in LoopStops(files, ring_participants) :
                      /\ KeyErrorAt(files, ring_participants, i)
                      /\ \A j \in LoopStops(files, ring_participants) : i <= j,
        files |-> files]

\* generate_my_data with the values the generators drew.
generate_my_data_perms(pm, my_user_id) ==
  set_permissions(pm, <<my_user_id, "private">>, {my_user_id}, {my_user_id})

generate_my_data(files, my_user_id, my_data) ==
  create_file(files, my_data_path(my_user_id), my_data)

\* ------------------------------------------------------------------ state
Init ==
  /\ ring \in Rings
  /\ fs = [q \in {} |-> None]
  /\ perms = [d \in {} |-> None]
  /\ pc = [u \in Users |-> "idle"]
  /\ prev_user_id = [u \in Users |-> None]
  /\ next_user_id = [u \in Users |-> None]
  /\ secret_value = [u \in Users |-> 0]
  /\ status = [u \in Users |-> "none"]
  /\ random_state = [u \in Users |-> NoProcess]

\* Lines 197-198: stage 1 runs while one of the two keys is missing.
KeySetupIncomplete(files, my_user_id) ==
  \/ ~check_file_exists(files, get_key_paths(my_user_id, "second"))
  \/ ~check_file_exists(files, get_key_paths(my_user_id, "first"))

\* Mutant: the second key is created on every run of stage 1.
SecondKeyMissing_always(files, my_user_id) == TRUE

\* Line 202: the second key is created only when it does not exist.
SecondKeyMissing(files, my_user_id) ==
  ~check_file_exists(files, get_key_paths(my_user_id, "second"))

\* Mutant: the run does not stop when the aggregate exists.
AggregateExists_ignored(files, my_user_id) == FALSE

\* Lines 186-187: the run exits when aggregate_data.json already exists.
AggregateExists(files, my_user_id) ==
  check_file_exists(files, aggregate_data_path(my_user_id))

\* Mutant: my_data.json is generated anew by every run.
MyDataMissing_always(files, my_user_id) == TRUE

\* Lines 192-193: my_data.json is generated only when it does not exist.
MyDataMissing(files, my_user_id) ==
  ~check_file_exists(files, my_data_path(my_user_id))

\* Line 183: construct the runner.  get_neighbors fetches the ring and
\* raises for a user outside it; the process then ends.
GetNeighbors(p) ==
  /\ pc[p] = "idle"
  /\ UNCHANGED <<ring, fs, perms, secret_value>>
  /\ IF NotFoundRaised(ring, p)
     THEN /\ status' = [status EXCEPT ![p] = "NotInRing"]
          /\ UNCHANGED <<pc, prev_user_id, next_user_id, random_state>>
     ELSE \E nb \in {get_neighbors(ring, p)} :
            /\ prev_user_id' = [prev_user_id EXCEPT ![p] = nb[1]]
            /\ next_user_id' = [next_user_id EXCEPT ![p] = nb[2]]
            /\ pc' = [pc EXCEPT ![p] = "main"]
            /\ random_state' = [random_state EXCEPT ![p] = OsSeeded]
            /\ status' = [status EXCEPT ![p] = "none"]

\* Lines 185-200: exit when the aggregate exists, create my_data.json when
\* it is missing, and set the folder permissions when a key is missing.
Start(p) ==
  /\ pc[p] = "main"
  /\ UNCHANGED <<ring, secret_value, prev_user_id, next_user_id>>
  /\ IF AggregateExists(fs, p)
     THEN /\ status' = [status EXCEPT ![p] = "AlreadyAggregated"]
          /\ pc' = [pc EXCEPT ![p] = "idle"]
          /\ random_state' = [random_state EXCEPT ![p] = NoProcess]
          /\ UNCHANGED <<fs, perms>>
     ELSE /\ UNCHANGED <<status, random_state>>
          /\ \E my_data \in DataSamples :
               \E pm1 \in { IF MyDataMissing(fs, p)
                            THEN generate_my_data_perms(perms, p)
                            ELSE perms } :
                 /\ fs' = IF MyDataMissing(fs, p)
                          THEN generate_my_data(fs, p, my_data)
                          ELSE fs
                 /\ IF KeySetupIncomplete(fs, p)
                    THEN /\ perms' = setup_folder_perms(pm1, p, next_user_id[p])
                         /\ pc' = [pc EXCEPT ![p] = "keygen"]
                    ELSE /\ perms' = pm1
                         /\ pc' = [pc EXCEPT ![p] = "encrypt"]

\* Lines 202-204: create the second key when it does not exist.
KeyGen(p) ==
  /\ pc[p] = "keygen"
  /\ UNCHANGED <<ring, perms, prev_user_id, next_user_id, status, random_state>>
  /\ IF SecondKeyMissing(fs, p)
     THEN \E value \in SecretValues :
            /\ fs' = create_secret_value(fs, p, value)
            /\ secret_value' = [secret_value EXCEPT ![p] = value]
            /\ pc' = [pc EXCEPT ![p] = "send"]
     ELSE /\ UNCHANGED <<fs, secret_value>>
          /\ pc' = [pc EXCEPT ![p] = "encrypt"]

\* Line 205: deposit the secret as the next neighbor's first key.
Send(p) ==
  /\ pc[p] = "send"
  /\ fs' = write_to_next_person(fs, next_user_id[p], secret_value[p])
  /\ secret_value' = [secret_value EXCEPT ![p] = 0]
  /\ pc' = [pc EXCEPT ![p] = "encrypt"]
  /\ UNCHANGED <<ring, perms, prev_user_id, next_user_id, status, random_state>>

\* Mutant: without both keys the record is published as it is.
Stage2_unguarded(files, my_user_id) ==
  IF ~check_file_exists(files, encrypted_data_path(my_user_id))
  THEN IF /\ check_file_exists(files, get_key_paths(my_user_id, "second"))
          /\ check_file_exists(files, get_key_paths(my_user_id, "first"))
       THEN create_encrypted_data_file(files, my_user_id)
       ELSE create_file(files, encrypted_data_path(my_user_id),
                        [key \in Fields |-> str(load_my_data(files, my_user_id)[key])])
  ELSE files

\* Lines 214-223: publish the masked record once both keys exist.
Stage2(files, my_user_id) ==
  IF ~check_file_exists(files, encrypted_data_path(my_user_id))
  THEN IF /\ check_file_exists(files, get_key_paths(my_user_id, "second"))
          /\ check_file_exists(files, get_key_paths(my_user_id, "first"))
       THEN create_encrypted_data_file(files, my_user_id)
       ELSE files
  ELSE files

\* The generator of the process after stage 2: the calls of prg in
\* encrypt_data reseed it.
Stage2Random(files, my_user_id, generator) ==
  IF /\ ~check_file_exists(files, encrypted_data_path(my_user_id))
     /\ check_file_exists(files, get_key_paths(my_user_id, "second"))
     /\ check_file_exists(files, get_key_paths(my_user_id, "first"))
  THEN encrypt_data_random(int(files[get_key_paths(my_user_id, "second")]))
  ELSE generator

\* Lines 214-226 and the call of line 227 up to the request of line 146:
\* stage 2, the test for the aggregate, and the process waiting for the ring
\* it has asked for.  Had the aggregate appeared the process would end here
\* (line 232).
Encrypt(p) ==
  /\ pc[p] = "encrypt"
  /\ fs' = Stage2(fs, p)
  /\ UNCHANGED <<ring, perms, prev_user_id, next_user_id, secret_value>>
  /\ IF ~check_file_exists(Stage2(fs, p), aggregate_data_path(p))
     THEN /\ pc' = [pc EXCEPT ![p] = "aggregate"]
          /\ random_state' =
                [random_state EXCEPT ![p] = Stage2Random(fs, p, random_state[p])]
          /\ UNCHANGED status
     ELSE /\ pc' = [pc EXCEPT ![p] = "idle"]
          /\ random_state' = [random_state EXCEPT ![p] = NoProcess]
          /\ status' = [status EXCEPT ![p] = "AlreadyAggregated"]

\* Mutant: the invocation waits until every masked record is there.
Aggregate_waits(p) ==
  /\ pc[p] = "aggregate"
  /\ AllEncryptedExist(fs, ring)
  /\ pc' = [pc EXCEPT ![p] = "idle"]
  /\ random_state' = [random_state EXCEPT ![p] = NoProcess]
  /\ UNCHANGED <<ring, perms, prev_user_id, next_user_id, secret_value>>
  /\ \E res \in {aggregate_data(fs, ring, p)} :
        /\ fs' = res.files
        /\ status' = [status EXCEPT ![p] =
                        IF res.raised THEN "KeyError"
                        ELSE IF res.ok THEN "Complete" ELSE "Pending"]

\* Lines 146-179 and 227-234: the response to the request of line 146
\* arrives; aggregate_data runs on the ring and the files of that moment and
\* the process ends.
Aggregate(p) ==
  /\ pc[p] = "aggregate"
  /\ pc' = [pc EXCEPT ![p] = "idle"]
  /\ random_state' = [random_state EXCEPT ![p] = NoProcess]
  /\ UNCHANGED <<ring, perms, prev_user_id, next_user_id, secret_value>>
  /\ \E res \in {aggregate_data(fs, ring, p)} :
        /\ fs' = res.files
        /\ status' = [status EXCEPT ![p] =
                        IF res.raised THEN "KeyError"
                        ELSE IF res.ok THEN "Complete" ELSE "Pending"]

Next ==
  \E p \in Users :
    \/ GetNeighbors(p)
    \/ Start(p)
    \/ KeyGen(p)
    \/ Send(p)
    \/ Encrypt(p)
    \/ Aggregate(p)

Spec == Init /\ [][Next]_vars

\* The publisher of RING_DATA_FILE replaces the ring (the file is fetched
\* anew by get_neighbors and by aggregate_data).  Membership is not changed
\* in the middle of a round: the ring is replaced only while no participant
\* has written a file.
PublishRing ==
  /\ DOMAIN fs = {}
  /\ \E r \in Rings \ {ring} : ring' = r
  /\ UNCHANGED <<fs, perms, pc, prev_user_id, next_user_id, secret_value, status,
                  random_state>>

\* Runners are constructed and started while the ring is being replaced.
NextRing ==
  \/ PublishRing
  \/ \E p \in Users : GetNeighbors(p) \/ Start(p)

SpecRing == Init /\ [][NextRing]_vars

\* One invocation of participant p, whichever step it is at.
Run(p) ==
  \/ GetNeighbors(p)
  \/ Start(p)
  \/ KeyGen(p)
  \/ Send(p)
  \/ Encrypt(p)
  \/ Aggregate(p)

\* A round in the fixed ring of all three participants.
InitRound == Init /\ ring = <<"A", "B", "C">>

\* Every participant keeps being invoked and every invocation runs on.
SpecFair ==
  InitRound /\ [][Next]_vars /\ \A p \in Users : WF_vars(Run(p))

\* Line 205 raising: the write into the next neighbor's folder fails after
\* line 204 has stored the second key.  The exception is not caught, so the
\* invocation ends there; secret_value is lost with the process.
SendFails(p) ==
  /\ pc[p] = "send"
  /\ pc' = [pc EXCEPT ![p] = "idle"]
  /\ status' = [status EXCEPT ![p] = "TransportError"]
  /\ secret_value' = [secret_value EXCEPT ![p] = 0]
  /\ random_state' = [random_state EXCEPT ![p] = NoProcess]
  /\ UNCHANGED <<ring, fs, perms, prev_user_id, next_user_id>>

NextFail == Next \/ \E p \in Users : SendFails(p)

\* Invocations in which the deposit of line 205 may fail.
SpecFail == Init /\ [][NextFail]_vars

\* ---------------------------------------------------------------- claims
RingMembers == { ring[i] : i \in 1..Len(ring) }

Exists(path) == path \in DOMAIN fs

Pos(u) == CHOOSE i \in 1..Len(ring) : ring[i] = u

\* The successor and the predecessor of a ring member, by position.
Succ(u) == ring[IF Pos(u) = Len(ring) THEN 1 ELSE Pos(u) + 1]

Pred(u) == ring[IF Pos(u) = 1 THEN Len(ring) ELSE Pos(u) - 1]

HasBothKeys(u) ==
  Exists(get_key_paths(u, "first")) /\ Exists(get_key_paths(u, "second"))

\* The sum of a field of the private records of the first n ring members.
RECURSIVE SumPrivate(_, _)
SumPrivate(f, n) ==
  IF n = 0 THEN 0 ELSE SumPrivate(f, n - 1) + fs[my_data_path(ring[n])][f]

\* C1: in a ring of at least three members, once every member has published
\* its masked record, the field-by-field sum of the masked records that
\* aggregate_data computes equals the sum of the private records.
C1_MaskCancellation ==
  (Len(ring) >= 3 /\ AllEncryptedExist(fs, ring)) =>
     \A f \in Fields : SumEncrypted(fs, ring, Len(ring))[f] = SumPrivate(f, Len(ring))

\* C1 witness: all three records are published, masked with different keys,
\* over private records that differ.
C1_Witness ==
  /\ Len(ring) >= 3
  /\ AllEncryptedExist(fs, ring)
  /\ \E u \in RingMembers :
       fs[get_key_paths(u, "first")] # fs[get_key_paths(u, "second")]
  /\ \E u, v \in RingMembers : fs[my_data_path(u)] # fs[my_data_path(v)]

\* C2 (state part): a participant's aggregate exists only if the masked
\* records of all ring members exist.
C2_AggregateNeedsAll ==
  \A p \in Users :
     Exists(aggregate_data_path(p)) => AllEncryptedExist(fs, ring)

\* C2 (step part): a run that reaches aggregate_data while a masked record is
\* missing reports Pending and saves no aggregate.
C2_PendingStep ==
  \A p \in Users :
     ( /\ pc[p] = "aggregate"
       /\ pc'[p] = "idle"
       /\ ~Exists(aggregate_data_path(p))
       /\ ~AllEncryptedExist(fs, ring) )
     => ( /\ status'[p] = "Pending"
          /\ aggregate_data_path(p) \notin DOMAIN fs' )

\* C2: aggregate_data returns Pending and persists nothing while a member's
\* masked record is missing, so an aggregate exists only if all of them do.
C2_PendingUntilAll ==
  []C2_AggregateNeedsAll /\ [][C2_PendingStep]_vars

\* C2 witness: a run ended Pending with a masked record missing and no
\* aggregate saved.
C2_Witness ==
  \E p \in RingMembers :
     /\ status[p] = "Pending"
     /\ pc[p] = "idle"
     /\ Exists(encrypted_data_path(p))
     /\ ~AllEncryptedExist(fs, ring)
     /\ ~Exists(aggregate_data_path(p))

\* n * |x| for a float x, in units of the last binary digit of x, as
\* <<high, low>> with the value high * 2^LowBits + low and low < 2^LowBits.
TimesFloat(n, x) ==
  <<n * x.mantissa[1] + ((n * x.mantissa[2]) \div (2^LowBits)),
    (n * x.mantissa[2]) % (2^LowBits)>>

\* The natural number total in the same units and the same form.
InUnitsOf(x, total) ==
  LET k == (MantissaBits - 1) - x.exponent
  IN  IF k >= LowBits
      THEN <<total * (2^(k - LowBits)), 0>>
      ELSE <<total \div (2^(LowBits - k)), (total % (2^(LowBits - k))) * (2^k)>>

\* n * x = total, as an equation of numbers.
ExactProduct(n, x, total) ==
  /\ (x.sign = 1) => total <= 0
  /\ TimesFloat(n, x) = InUnitsOf(x, Abs(total))

\* x is a float nearest to total / n: n * x and total differ by at most
\* n / 2 units of the last binary digit of x.
NearestFloat(n, x, total) ==
  LET product == TimesFloat(n, x)
      exact   == InUnitsOf(x, Abs(total))
      diff    == (product[1] - exact[1]) * (2^LowBits) + (product[2] - exact[2])
  IN  /\ (x.sign = 1) => total <= 0
      /\ Abs(product[1] - exact[1]) <= 1
      /\ 2 * Abs(diff) <= n

\* C3 as stated: the aggregate a participant saves satisfies, for every
\* field, n * saved = the sum of the private records of all ring members,
\* n being the size of the ring.
C3_ExactAverage ==
  \A p \in Users :
     Exists(aggregate_data_path(p)) =>
        \A f \in Fields :
           ExactProduct(Len(ring), fs[aggregate_data_path(p)][f],
                        SumPrivate(f, Len(ring)))

\* C3 amended: for every field the saved value is the float nearest to the
\* sum of the private records of all ring members divided by n, n being the
\* size of the ring; n * saved = sum holds when n divides the sum.
C3_AverageOfPrivate ==
  \A p \in Users :
     Exists(aggregate_data_path(p)) =>
        \A f \in Fields :
           /\ NearestFloat(Len(ring), fs[aggregate_data_path(p)][f],
                           SumPrivate(f, Len(ring)))
           /\ (SumPrivate(f, Len(ring)) % Len(ring) = 0) =>
                 ExactProduct(Len(ring), fs[aggregate_data_path(p)][f],
                              SumPrivate(f, Len(ring)))

\* C3 witness: three members with view times 10, 10 and 20: the saved
\* average is the float 13.333333333333334, nearest to 40/3.
C3_Witness ==
  \E p \in Users :
     /\ Len(ring) = 3
     /\ Exists(aggregate_data_path(p))
     /\ SumPrivate("view_time", 3) = 40
     /\ fs[aggregate_data_path(p)]["view_time"] =
          [sign |-> 0, exponent |-> 3, mantissa |-> <<55924053, 44739243>>]

\* C4 (step): once the second key exists no step changes it, no step changes
\* the value at the next neighbor's first-key location or deposits another
\* value there, and the first key appears only by the previous neighbor's
\* deposit.
C4_Step ==
  \A p \in Users :
     Exists(get_key_paths(p, "second")) =>
        /\ get_key_paths(p, "second") \in DOMAIN fs'
        /\ fs'[get_key_paths(p, "second")] = fs[get_key_paths(p, "second")]
        /\ LET n == get_key_paths(Succ(p), "first")
           IN  /\ n \in DOMAIN fs => (n \in DOMAIN fs' /\ fs'[n] = fs[n])
               /\ n \in DOMAIN fs' => fs'[n] = fs'[get_key_paths(p, "second")]
        /\ ( /\ ~Exists(get_key_paths(p, "first"))
             /\ get_key_paths(p, "first") \in DOMAIN fs' )
           => (pc[Pred(p)] = "send" /\ pc'[Pred(p)] = "encrypt")

\* C4: a participant's second key is never regenerated, whatever the number
\* of runs before its first key arrives.
C4_SecondKeyKept == [][C4_Step]_vars

\* C4 witness: a participant whose earlier run created the second key and
\* ended without a first key is about to run stage 1 again.
C4_Witness ==
  \E p \in Users :
     /\ status[p] = "none"
     /\ pc[p] = "keygen"
     /\ Exists(get_key_paths(p, "second"))
     /\ ~Exists(get_key_paths(p, "first"))

\* A participant has run stage 1 at least once: its run is past stage 1, or
\* an earlier run of it has ended after stage 1.
Stage1Ran(p) ==
  \/ pc[p] \in {"encrypt", "aggregate"}
  \/ status[p] \in {"Pending", "Complete", "AlreadyAggregated"}

\* C5: in a ring of at least three members, once every member has run
\* stage 1, every member has its second and its first key.
C5_KeyExchangeConverges ==
  (Len(ring) >= 3 /\ \A p \in RingMembers : Stage1Ran(p)) =>
     \A p \in RingMembers : HasBothKeys(p)

\* C5 witness: every member of a ring of three is past its first stage 1 and
\* no run has ended yet.
C5_Witness ==
  /\ Len(ring) >= 3
  /\ \A p \in RingMembers : pc[p] = "encrypt" /\ status[p] = "none"
  /\ \A p \in RingMembers : HasBothKeys(p)

\* Who may read a directory: its readers, and anybody before a restriction.
CanRead(q, dir) ==
  dir \notin DOMAIN perms \/ q \in perms[dir].read

\* C6: wherever a key is stored, and already when a run is about to write
\* it, the location is restricted: the second key to its owner, the first
\* key to its receiver; so the key of P is readable by P and next(P) only.
C6_KeysRestricted ==
  /\ \A u \in Users :
       /\ Exists(get_key_paths(u, "second")) =>
            \A q \in Users : CanRead(q, <<u, "second">>) => q = u
       /\ Exists(get_key_paths(u, "first")) =>
            \A q \in Users : CanRead(q, <<u, "first">>) => q = Succ(Pred(u))
       /\ pc[u] \in {"keygen", "send"} =>
            \A q \in Users :
               /\ CanRead(q, <<u, "second">>) => q = u
               /\ CanRead(q, <<Succ(u), "first">>) => q = Succ(u)

\* C6 witness: a run has stored its second key and has not yet deposited it
\* in the next neighbor's folder, which is already restricted.
C6_Witness ==
  \E u \in RingMembers :
     /\ Succ(u) # u
     /\ pc[u] = "send"
     /\ Exists(get_key_paths(u, "second"))
     /\ ~Exists(get_key_paths(Succ(u), "first"))
     /\ <<Succ(u), "first">> \in DOMAIN perms

\* C8: when the published ring has fewer than three members, no participant
\* creates or receives a key or publishes a masked record.
C8_SmallRingRejected ==
  Len(ring) < 3 =>
     \A u \in Users :
        /\ ~Exists(get_key_paths(u, "second"))
        /\ ~Exists(get_key_paths(u, "first"))
        /\ ~Exists(encrypted_data_path(u))

\* C9 (state part): for every member of the published ring get_neighbors
\* returns its predecessor and its successor in that ring, wrapping around
\* at both ends; in the ring A, B, C these are (A, C) for B and (C, B) for A.
C9_NeighborsOfRing ==
  /\ \A p \in RingMembers :
        get_neighbors(ring, p) = <<Pred(p), Succ(p)>>
  /\ ring = <<"A", "B", "C">> =>
        /\ get_neighbors(ring, "B") = <<"A", "C">>
        /\ get_neighbors(ring, "A") = <<"C", "B">>

\* C9 (step part): every run that starts takes its neighbors from the ring
\* published at that moment, whatever ring was published before; a ring
\* published later does not reach a run that has started.
C9_StartStep ==
  \A p \in Users :
     /\ (pc[p] = "idle" /\ pc'[p] # "idle") =>
          /\ p \in RingMembers
          /\ prev_user_id'[p] = Pred(p)
          /\ next_user_id'[p] = Succ(p)
     /\ pc[p] # "idle" =>
          /\ prev_user_id'[p] = prev_user_id[p]
          /\ next_user_id'[p] = next_user_id[p]

\* C9: get_neighbors returns (ring[(i-1) mod n], ring[(i+1) mod n]) for the
\* participant at index i, computed from the currently published ring on
\* every run.
C9_NeighborResolution ==
  []C9_NeighborsOfRing /\ [][C9_StartStep]_vars

\* C9 witness: C was refused by an earlier ring it was not a member of, B
\* started under the ring A, C, B with the neighbors (C, A), and A starts
\* under the ring A, B, C published since with the wrap-around neighbors
\* (C, B).
C9_Witness ==
  /\ ring = <<"A", "B", "C">>
  /\ status["C"] = "NotInRing"
  /\ pc["B"] = "main"
  /\ prev_user_id["B"] = "C"
  /\ next_user_id["B"] = "A"
  /\ pc["A"] = "main"
  /\ prev_user_id["A"] = "C"
  /\ next_user_id["A"] = "B"

\* C10 (state part): a participant that is not in the ring has no run in
\* progress and no file or permission of its own or written by it.
C10_NothingWritten ==
  \A p \in Users \ RingMembers :
     /\ pc[p] = "idle"
     /\ status[p] \in {"none", "NotInRing"}
     /\ \A path \in DOMAIN fs : path[1] # p
     /\ \A dir \in DOMAIN perms : dir[1] # p /\ p \notin perms[dir].write

\* C10 (step part): the run of a participant that is not in the ring reports
\* the not-in-ring error and changes nothing else.
C10_FailStep ==
  \A p \in Users \ RingMembers :
     status'[p] # status[p] =>
        /\ status'[p] = "NotInRing"
        /\ fs' = fs
        /\ perms' = perms
        /\ pc' = pc
        /\ prev_user_id' = prev_user_id
        /\ next_user_id' = next_user_id

\* C10: a run of a participant absent from the ring fails with the
\* not-in-ring error and writes no state.
C10_NotInRingAborts ==
  []C10_NothingWritten /\ [][C10_FailStep]_vars

\* C10 witness: a participant outside the ring was refused while the ring
\* members have written files.
C10_Witness ==
  \E p \in Users \ RingMembers :
     /\ status[p] = "NotInRing"
     /\ DOMAIN fs # {}

\* The step is one of participant p's own run.
StepOf(p) ==
  <<pc'[p], status'[p], prev_user_id'[p], next_user_id'[p], secret_value'[p]>>
    # <<pc[p], status[p], prev_user_id[p], next_user_id[p], secret_value[p]>>

\* The files and permissions owned by p are the same after the step.
OwnArtifactsKept(p) ==
  /\ \A path \in DOMAIN fs :
        path[1] = p => (path \in DOMAIN fs' /\ fs'[path] = fs[path])
  /\ \A dir \in DOMAIN perms :
        dir[1] = p => (dir \in DOMAIN perms' /\ perms'[dir] = perms[dir])

\* C11 (step): once p's aggregate exists, a run p starts stops at the check
\* of the aggregate, and no step creates or changes a file or permission.
C11_Step ==
  \A p \in Users :
     Exists(aggregate_data_path(p)) =>
        /\ pc[p] \in {"idle", "main"}
        /\ pc'[p] \in {"idle", "main"}
        /\ (pc[p] = "main" /\ pc'[p] = "idle") => status'[p] = "AlreadyAggregated"
        /\ OwnArtifactsKept(p)
        /\ StepOf(p) => (fs' = fs /\ perms' = perms)

\* C11: Aggregated is absorbing: once a participant's aggregate exists, its
\* later runs stop without creating or modifying any artifact.
C11_AggregatedAbsorbing == [][C11_Step]_vars

\* C11 witness: a participant ran again after its aggregate was saved.
C11_Witness ==
  \E p \in Users :
     /\ Exists(aggregate_data_path(p))
     /\ status[p] = "AlreadyAggregated"
     /\ pc[p] = "idle"

\* The state "KEYS_COMPLETE and masked record published" of participant p.
MaskedState(p) ==
  HasBothKeys(p) /\ Exists(encrypted_data_path(p))

\* C12 as stated: a step of p's run in the state KEYS_COMPLETE with the
\* masked record published writes nothing.
C12_NoNewWrites ==
  [][\A p \in Users : (MaskedState(p) /\ StepOf(p)) => (fs' = fs /\ perms' = perms)]_vars

\* C12 amended (step): in that state a step of p's run changes no existing
\* file and no permission; the one file it may create is p's aggregate, and
\* only when all masked records exist.
C12_Step ==
  \A p \in Users :
     (MaskedState(p) /\ StepOf(p)) =>
        /\ perms' = perms
        /\ \A path \in DOMAIN fs : path \in DOMAIN fs' /\ fs'[path] = fs[path]
        /\ (DOMAIN fs') \ (DOMAIN fs) \subseteq {aggregate_data_path(p)}
        /\ (DOMAIN fs' # DOMAIN fs) => AllEncryptedExist(fs, ring)

\* C12 amended: runs in the state KEYS_COMPLETE with the masked record
\* published change no key, record, permission or masked record; they write
\* at most the aggregate, once every member's masked record exists.
C12_OnlyAggregateWritten == [][C12_Step]_vars

\* C12 witness: a participant that has published runs once more while the
\* round is not complete.
C12_Witness ==
  \E p \in Users :
     /\ MaskedState(p)
     /\ status[p] = "none"
     /\ pc[p] = "encrypt"
     /\ ~AllEncryptedExist(fs, ring)

\* C13 (state part): a masked record exists only if both keys and the
\* private record of its participant exist.
C13_MaskedNeedsKeys ==
  \A p \in Users :
     Exists(encrypted_data_path(p)) =>
        HasBothKeys(p) /\ Exists(my_data_path(p))

\* C13 (step part): the masked record is created only by a step of its
\* participant's run that finds both keys and the private record in place.
C13_MaskStep ==
  \A p \in Users :
     ( /\ ~Exists(encrypted_data_path(p))
       /\ encrypted_data_path(p) \in DOMAIN fs' )
     => ( /\ pc[p] = "encrypt"
          /\ HasBothKeys(p)
          /\ Exists(my_data_path(p)) )

\* C13: masking never runs with a missing key, under any interleaving.
C13_KeysReadyBeforeMasking ==
  []C13_MaskedNeedsKeys /\ [][C13_MaskStep]_vars

\* C13 witness: a run ended without masking: the second key was there, the
\* first key was not, and nothing has been published.
C13_Witness ==
  \E p \in Users :
     /\ pc[p] = "idle"
     /\ status[p] = "Pending"
     /\ Exists(get_key_paths(p, "second"))
     /\ ~Exists(get_key_paths(p, "first"))
     /\ ~Exists(encrypted_data_path(p))

\* C14: the masked record has the field names of the private record and,
\* for every field f, the value private[f] + prg(first_key, f)
\* - prg(second_key, f), first_key being the key stored by the previous
\* neighbor and second_key the participant's own.
C14_MaskedValues ==
  \A p \in Users :
     Exists(encrypted_data_path(p)) =>
        LET masked     == fs[encrypted_data_path(p)]
            private    == fs[my_data_path(p)]
            first_key  == int(fs[get_key_paths(p, "first")])
            second_key == int(fs[get_key_paths(p, "second")])
        IN  /\ DOMAIN masked = DOMAIN private
            /\ fs[get_key_paths(p, "first")] = fs[get_key_paths(Pred(p), "second")]
            /\ \A f \in DOMAIN private :
                  int(masked[f])
                    = private[f] + PrgTable[f][first_key] - PrgTable[f][second_key]

\* C14 witness: view time 10 masked with first key 1 and second key 2 is
\* 10 + 793664595 - 192001703 = 601662902.
C14_Witness ==
  \E p \in Users :
     /\ Exists(encrypted_data_path(p))
     /\ fs[get_key_paths(p, "first")] = <<"1">>
     /\ fs[get_key_paths(p, "second")] = <<"2">>
     /\ fs[my_data_path(p)]["view_time"] = 10
     /\ fs[encrypted_data_path(p)]["view_time"]
          = <<"6", "0", "1", "6", "6", "2", "9", "0", "2">>

\* C15 (step): no step changes or removes an existing file; a new first key
\* is written by the run of the owner's previous neighbor, any other new file
\* by the run of its owner; and a key is written only where none exists.
C15_Step ==
  /\ \A path \in DOMAIN fs : path \in DOMAIN fs' /\ fs'[path] = fs[path]
  /\ \A path \in (DOMAIN fs') \ (DOMAIN fs) :
        IF path[2] = "first"
        THEN pc[Pred(path[1])] = "send" /\ pc'[Pred(path[1])] = "encrypt"
        ELSE StepOf(path[1])
  /\ \A p \in Users :
        /\ (pc[p] = "keygen" /\ pc'[p] = "send") =>
              ~Exists(get_key_paths(p, "second"))
        /\ (pc[p] = "send" /\ pc'[p] = "encrypt") =>
              ~Exists(get_key_paths(next_user_id[p], "first"))

\* C15: every artifact is single-writer and write-once.
C15_SingleWriterWriteOnce == [][C15_Step]_vars

\* C15 witness: in a ring of three every artifact of every member has been
\* written.
C15_Witness ==
  /\ Len(ring) >= 3
  /\ \A p \in RingMembers :
        /\ Exists(my_data_path(p))
        /\ HasBothKeys(p)
        /\ Exists(encrypted_data_path(p))
        /\ Exists(aggregate_data_path(p))

\* C16: retry after a failed deposit is safe: once a participant that holds
\* its second key has run an invocation to its end, its next neighbor holds
\* the first key.
C16_RetryCompletesDeposit ==
  \A p \in RingMembers :
     ( /\ pc[p] = "idle"
       /\ status[p] \in {"Pending", "Complete", "AlreadyAggregated"}
       /\ Exists(get_key_paths(p, "second")) )
     => Exists(get_key_paths(Succ(p), "first"))

\* C17: in a ring of three or more without failures, if every participant
\* keeps being invoked, every member eventually stores an aggregate result.
C17_RoundCompletes ==
  <>(Len(ring) >= 3 /\ \A p \in RingMembers : Exists(aggregate_data_path(p)))

\* C17 witness: a ring of three in which every member has seen the round end.
C17_Witness ==
  /\ Len(ring) >= 3
  /\ \A p \in RingMembers :
        /\ Exists(aggregate_data_path(p))
        /\ pc[p] = "idle"
        /\ status[p] \in {"Complete", "AlreadyAggregated"}

\* Position of an invocation: it only moves forward, and "idle" is its end.
StepRank(at) ==
  CASE at = "main"      -> 1
    [] at = "keygen"    -> 2
    [] at = "send"      -> 3
    [] at = "encrypt"   -> 4
    [] at = "aggregate" -> 5
    [] at = "idle"      -> 6

\* C18 (state part): an invocation that has started can always take its next
\* step, whatever the other participants have or have not written.
C18_NeverBlocked ==
  \A p \in Users :
     pc[p] # "idle" => ENABLED (Start(p) \/ KeyGen(p) \/ Send(p) \/ Encrypt(p) \/ Aggregate(p))

\* C18 (step part): every step of a started invocation moves it forward, so
\* it ends after at most five more steps; after stage 2 the masked record
\* exists exactly if both keys do, and at its end the aggregate exists
\* exactly if every masked record does, "Pending" being reported otherwise.
C18_RunStep ==
  \A p \in RingMembers :
     /\ (pc[p] # "idle" /\ StepOf(p)) => StepRank(pc'[p]) > StepRank(pc[p])
     /\ (pc[p] = "keygen" /\ StepOf(p)) => get_key_paths(p, "second") \in DOMAIN fs'
     /\ (pc[p] = "encrypt" /\ pc'[p] = "aggregate") =>
          ((encrypted_data_path(p) \in DOMAIN fs') <=> HasBothKeys(p))
     /\ (pc[p] = "aggregate" /\ pc'[p] = "idle") =>
          /\ (aggregate_data_path(p) \in DOMAIN fs') <=> AllEncryptedExist(fs', ring)
          /\ (status'[p] = "Pending") <=> ~AllEncryptedExist(fs', ring)

\* C18: every invocation ends without waiting for another participant.
C18_TerminatesWithoutWaiting ==
  []C18_NeverBlocked /\ [][C18_RunStep]_vars

\* C18 witness: a participant is at the last step of its invocation with no
\* first key, and no other participant has ever been invoked.
C18_Witness ==
  \E p \in RingMembers :
     /\ Len(ring) >= 3
     /\ pc[p] = "encrypt"
     /\ ~Exists(get_key_paths(p, "first"))
     /\ \A q \in Users \ {p} : pc[q] = "idle" /\ status[q] = "none"

\* C19: a call of prg has no side effect: the step of a process that
\* calls prg (stage 2 masking the record) leaves the generator of module
\* random of that process as it was.
C19_PrgLeavesGenerator ==
  [][ \A p \in Users :
        ( /\ pc[p] = "encrypt"
          /\ pc'[p] = "aggregate"
          /\ encrypted_data_path(p) \in (DOMAIN fs') \ (DOMAIN fs) )
        => random_state'[p] = random_state[p] ]_vars

\* C20: a first key exists only if the previous neighbor's second key exists
\* and holds the same value (the second key is stored before it is
\* deposited); so every masked record was computed with the key pair that
\* was sent and received.
C20_KeyConsistency ==
  \A p \in RingMembers :
     /\ Exists(get_key_paths(p, "first")) =>
          /\ Exists(get_key_paths(Pred(p), "second"))
          /\ fs[get_key_paths(p, "first")] = fs[get_key_paths(Pred(p), "second")]
     /\ pc[p] = "send" =>
          /\ Exists(get_key_paths(p, "second"))
          /\ fs[get_key_paths(p, "second")] = str(secret_value[p])
     /\ Exists(encrypted_data_path(p)) =>
          fs[encrypted_data_path(p)]
            = encrypt_data(fs[my_data_path(p)],
                           int(fs[get_key_paths(Pred(p), "second")]),
                           int(fs[get_key_paths(p, "second")]))

\* C20 witness: a participant holds the first key its previous neighbor
\* deposited before it has created its own second key.
C20_Witness ==
  \E p \in RingMembers :
     /\ Pred(p) # p
     /\ Exists(get_key_paths(p, "first"))
     /\ ~Exists(get_key_paths(p, "second"))
     /\ fs[get_key_paths(p, "first")] = fs[get_key_paths(Pred(p), "second")]

====
